---- MODULE Spec2Model ----
(***************************************************************************)
(* Google Drive permission sync (doc_sync.py): the permission resolver     *)
(* (_get_permissions_from_slim_doc, _fetch_permissions_for_permission_ids) *)
(* over the process-wide permission cache, and the generator               *)
(* gdrive_doc_sync that drives it, one document at a time.                 *)
(***************************************************************************)
EXTENDS Naturals, Sequences, FiniteSets

VARIABLES
    pc,               \* position of the generator gdrive_doc_sync
    error,            \* exception that ended the run ("none" while it runs)
    cache,            \* _PERMISSION_ID_PERMISSION_MAP
    company_domain,   \* google_drive_connector.google_domain
    hasCallback,      \* whether callback is not None
    stop,             \* what callback.should_stop() answers now
    run,              \* number of the current run in this process
    slim_doc_batch,   \* the batch being iterated
    idx,              \* index of slim_doc in slim_doc_batch
    pulled,           \* documents received from slim_doc_generator so far
    emitted,          \* records yielded to the caller so far
    progressUnits,    \* units handed to callback.progress so far
    resolved,         \* calls of _get_permissions_from_slim_doc so far
    ext_access,       \* result of the resolver awaiting its yield
    permissions_list, \* the entry list the latest resolution used
    fetch_calls,      \* permission fetches made by the latest resolution
    fetched,          \* what the permission listing answered the latest resolution
    cache0            \* the cache as the latest resolution found it

vars == <<pc, error, cache, company_domain, hasCallback, stop, run,
          slim_doc_batch, idx, pulled, emitted, progressUnits, resolved,
          ext_access, permissions_list, fetch_calls, fetched, cache0>>

----------------------------------------------------------------------------
(* Bounds *)

MaxDocs == 2

MaxRuns == 2

MaxPerms == 2

----------------------------------------------------------------------------
(* Data *)

\* Python's None, and an absent dictionary key (every read of these fields
\* treats the two alike).
None == "None"

\* A permission dictionary of the Drive API; an absent key is None.
Perm(id, type, emailAddress, domain) ==
    [id |-> id, type |-> type, emailAddress |-> emailAddress, domain |-> domain]

\* The empty dictionary: the entry for which "not permission" is true.
EmptyPerm == Perm(None, None, None, None)

IsFalsy(permission) == permission = EmptyPerm

\* SlimDocument: id and perm_sync_data (absent keys None, absent lists <<>>).
SlimDoc(id, permissions, permission_ids, doc_id, drive_id) ==
    [id |-> id,
     perm_sync_data |-> [permissions |-> permissions,
                         permission_ids |-> permission_ids,
                         doc_id |-> doc_id,
                         drive_id |-> drive_id]]

ExternalAccess(users, groups, public) ==
    [external_user_emails |-> users,
     external_user_group_ids |-> groups,
     is_public |-> public]

\* The record returned when no permissions are found (lines 100-104).
PrivateAccess == ExternalAccess({}, {}, FALSE)

DocExternalAccess(access, doc_id) == [external_access |-> access, doc_id |-> doc_id]

EmptyCache == [pid \in {} |-> EmptyPerm]

CachePut(c, pid, permission) ==
    [x \in (DOMAIN c) \cup {pid} |-> IF x = pid THEN permission ELSE c[x]]

\* Sequences over S of length at most n.
RECURSIVE SeqsUpTo(_, _)
SeqsUpTo(S, n) ==
    IF n = 0 THEN {<<>>}
    ELSE LET shorter == SeqsUpTo(S, n - 1)
         IN  shorter \cup {Append(s, x) : s \in {t \in shorter : Len(t) = n - 1}, x \in S}

----------------------------------------------------------------------------
(* _fetch_permissions_for_permission_ids, lines 41-81 *)

\* An answer of the permission listing: the entries it delivers, and whether
\* it raises once they are delivered (not-found and forbidden are the answer
\* with no entries that does not raise).
FetchAnswer(entries, fails) == [entries |-> entries, fails |-> fails]

NotFoundAnswer == FetchAnswer(<<>>, FALSE)

\* The loop of lines 76-81 keeping what the cache already holds.
RECURSIVE StoreFetchedKeepsCached(_, _, _, _)
StoreFetchedKeepsCached(answer, i, permissions_for_doc_id, c) ==
    IF i > Len(answer.entries)
    THEN [err |-> IF answer.fails THEN "FetchError" ELSE "none",
          permissions |-> permissions_for_doc_id, cache |-> c]
    ELSE LET permission == answer.entries[i]
         IN  IF permission.id = None
             THEN [err |-> "KeyError", permissions |-> permissions_for_doc_id, cache |-> c]
             ELSE StoreFetchedKeepsCached(answer, i + 1,
                                     Append(permissions_for_doc_id, permission),
                                     IF permission.id \in DOMAIN c
                                     THEN c
                                     ELSE CachePut(c, permission.id, permission))

\* The loop of lines 76-81 with a failure of the listing swallowed.
RECURSIVE StoreFetchedSwallows(_, _, _, _)
StoreFetchedSwallows(answer, i, permissions_for_doc_id, c) ==
    IF i > Len(answer.entries)
    THEN [err |-> "none", permissions |-> <<>>, cache |-> c]
    ELSE LET permission == answer.entries[i]
         IN  IF permission.id = None
             THEN [err |-> "KeyError", permissions |-> permissions_for_doc_id, cache |-> c]
             ELSE StoreFetchedSwallows(answer, i + 1,
                                       Append(permissions_for_doc_id, permission),
                                       CachePut(c, permission.id, permission))

\* The loop of lines 76-81 writing the cache only when the whole answer has
\* been read without an error.
RECURSIVE StoreFetchedRead(_, _, _, _)
StoreFetchedRead(answer, i, permissions_for_doc_id, c) ==
    IF i > Len(answer.entries)
    THEN [err |-> IF answer.fails THEN "FetchError" ELSE "none",
          permissions |-> permissions_for_doc_id, cache |-> c]
    ELSE LET permission == answer.entries[i]
         IN  IF permission.id = None
             THEN [err |-> "KeyError", permissions |-> permissions_for_doc_id, cache |-> c]
             ELSE StoreFetchedRead(answer, i + 1,
                                   Append(permissions_for_doc_id, permission),
                                   CachePut(c, permission.id, permission))

StoreFetchedAsBatch(answer, i, permissions_for_doc_id, c) ==
    LET read == StoreFetchedRead(answer, i, permissions_for_doc_id, c)
    IN  IF read.err = "none" THEN read ELSE [read EXCEPT !.cache = c]

\* Lines 76-81: the loop over fetched_permissions from entry i on. Reading
\* permission["id"] of an entry without an id raises KeyError; the listing
\* raises, if it does, once its entries are delivered.
RECURSIVE StoreFetched(_, _, _, _)
StoreFetched(answer, i, permissions_for_doc_id, c) ==
    IF i > Len(answer.entries)
    THEN [err |-> IF answer.fails THEN "FetchError" ELSE "none",
          permissions |-> permissions_for_doc_id, cache |-> c]
    ELSE LET permission == answer.entries[i]
         IN  IF permission.id = None
             THEN [err |-> "KeyError", permissions |-> permissions_for_doc_id, cache |-> c]
             ELSE StoreFetched(answer, i + 1,
                               Append(permissions_for_doc_id, permission),
                               CachePut(c, permission.id, permission))

\* Lines 50-54: the cached entries of the referenced identifiers, in order.
RECURSIVE CachedPermissions(_, _)
CachedPermissions(c, permission_ids) ==
    IF permission_ids = <<>> THEN <<>>
    ELSE LET rest == CachedPermissions(c, Tail(permission_ids))
         IN  IF Head(permission_ids) \in DOMAIN c
             THEN <<c[Head(permission_ids)]>> \o rest
             ELSE rest

\* The fetch made without looking at the cache.
FetchPermissionsForPermissionIdsAlways(c, permission_ids, permission_info, answer) ==
    IF permission_info.doc_id = None
    THEN [err |-> "none", permissions |-> <<>>, cache |-> c, calls |-> 0]
    ELSE LET stored == StoreFetched(answer, 1, <<>>, c)
         IN  [err |-> stored.err, permissions |-> stored.permissions,
              cache |-> stored.cache, calls |-> 1]

\* The fetch result joined to the cached entries of the referenced identifiers.
FetchPermissionsForPermissionIdsMerging(c, permission_ids, permission_info, answer) ==
    IF permission_info.doc_id = None
    THEN [err |-> "none", permissions |-> <<>>, cache |-> c, calls |-> 0]
    ELSE LET permissions == CachedPermissions(c, permission_ids)
         IN  IF Len(permissions) = Len(permission_ids)
             THEN [err |-> "none", permissions |-> permissions, cache |-> c, calls |-> 0]
             ELSE LET stored == StoreFetched(answer, 1, <<>>, c)
                  IN  [err |-> stored.err, permissions |-> permissions \o stored.permissions,
                       cache |-> stored.cache, calls |-> 1]

\* The fetch starting from an emptied cache.
FetchPermissionsForPermissionIdsResetsCache(c, permission_ids, permission_info, answer) ==
    IF permission_info.doc_id = None
    THEN [err |-> "none", permissions |-> <<>>, cache |-> c, calls |-> 0]
    ELSE LET permissions == CachedPermissions(c, permission_ids)
         IN  IF Len(permissions) = Len(permission_ids)
             THEN [err |-> "none", permissions |-> permissions, cache |-> c, calls |-> 0]
             ELSE LET stored == StoreFetched(answer, 1, <<>>, EmptyCache)
                  IN  [err |-> stored.err, permissions |-> stored.permissions,
                       cache |-> stored.cache, calls |-> 1]

\* Lines 46-81.
FetchPermissionsForPermissionIds(c, permission_ids, permission_info, answer) ==
    IF permission_info.doc_id = None
    THEN [err |-> "none", permissions |-> <<>>, cache |-> c, calls |-> 0]
    ELSE LET permissions == CachedPermissions(c, permission_ids)
         IN  IF Len(permissions) = Len(permission_ids)
             THEN [err |-> "none", permissions |-> permissions, cache |-> c, calls |-> 0]
             ELSE LET stored == StoreFetched(answer, 1, <<>>, c)
                  IN  [err |-> stored.err, permissions |-> stored.permissions,
                       cache |-> stored.cache, calls |-> 1]

----------------------------------------------------------------------------
(* _get_permissions_from_slim_doc, lines 84-145 *)

ClassifyStart ==
    [err |-> "none", user_emails |-> {}, group_emails |-> {}, public |-> FALSE,
     skipped_permissions |-> 0]

\* The loop body without the test of lines 113-115: a falsy entry is read
\* like any other, and has no type.
ClassifyEntryReadsFalsy(permission, acc, domain) ==
    IF permission.type = None
    THEN [acc EXCEPT !.err = "KeyError"]
    ELSE IF permission.type = "user"
    THEN IF permission.emailAddress = None
         THEN [acc EXCEPT !.err = "KeyError"]
         ELSE [acc EXCEPT !.user_emails = @ \cup {permission.emailAddress}]
    ELSE IF permission.type = "group"
    THEN IF permission.emailAddress = None
         THEN [acc EXCEPT !.err = "KeyError"]
         ELSE [acc EXCEPT !.group_emails = @ \cup {permission.emailAddress}]
    ELSE IF permission.type = "domain" /\ domain # None
    THEN IF permission.domain = domain
         THEN [acc EXCEPT !.public = TRUE]
         ELSE acc
    ELSE IF permission.type = "anyone"
    THEN [acc EXCEPT !.public = TRUE]
    ELSE acc

\* The loop body filing the address of a group entry with the users.
ClassifyEntryGroupsAsUsers(permission, acc, domain) ==
    IF IsFalsy(permission)
    THEN [acc EXCEPT !.skipped_permissions = @ + 1]
    ELSE IF permission.type = None
    THEN [acc EXCEPT !.err = "KeyError"]
    ELSE IF permission.type \in {"user", "group"}
    THEN IF permission.emailAddress = None
         THEN [acc EXCEPT !.err = "KeyError"]
         ELSE [acc EXCEPT !.user_emails = @ \cup {permission.emailAddress}]
    ELSE IF permission.type = "domain" /\ domain # None
    THEN IF permission.domain = domain
         THEN [acc EXCEPT !.public = TRUE]
         ELSE acc
    ELSE IF permission.type = "anyone"
    THEN [acc EXCEPT !.public = TRUE]
    ELSE acc

\* The loop body taking any domain entry for the configured domain.
ClassifyEntryAnyDomain(permission, acc, domain) ==
    IF IsFalsy(permission)
    THEN [acc EXCEPT !.skipped_permissions = @ + 1]
    ELSE IF permission.type = None
    THEN [acc EXCEPT !.err = "KeyError"]
    ELSE IF permission.type = "user"
    THEN IF permission.emailAddress = None
         THEN [acc EXCEPT !.err = "KeyError"]
         ELSE [acc EXCEPT !.user_emails = @ \cup {permission.emailAddress}]
    ELSE IF permission.type = "group"
    THEN IF permission.emailAddress = None
         THEN [acc EXCEPT !.err = "KeyError"]
         ELSE [acc EXCEPT !.group_emails = @ \cup {permission.emailAddress}]
    ELSE IF permission.type = "domain" /\ domain # None
    THEN [acc EXCEPT !.public = TRUE]
    ELSE IF permission.type = "anyone"
    THEN [acc EXCEPT !.public = TRUE]
    ELSE acc

\* Lines 113-131: one pass of the loop body. Reading permission["type"] or
\* permission["emailAddress"] of an entry without that key raises KeyError.
ClassifyEntry(permission, acc, domain) ==
    IF IsFalsy(permission)
    THEN [acc EXCEPT !.skipped_permissions = @ + 1]
    ELSE IF permission.type = None
    THEN [acc EXCEPT !.err = "KeyError"]
    ELSE IF permission.type = "user"
    THEN IF permission.emailAddress = None
         THEN [acc EXCEPT !.err = "KeyError"]
         ELSE [acc EXCEPT !.user_emails = @ \cup {permission.emailAddress}]
    ELSE IF permission.type = "group"
    THEN IF permission.emailAddress = None
         THEN [acc EXCEPT !.err = "KeyError"]
         ELSE [acc EXCEPT !.group_emails = @ \cup {permission.emailAddress}]
    ELSE IF permission.type = "domain" /\ domain # None
    THEN IF permission.domain = domain
         THEN [acc EXCEPT !.public = TRUE]
         ELSE acc
    ELSE IF permission.type = "anyone"
    THEN [acc EXCEPT !.public = TRUE]
    ELSE acc

\* Lines 112-131: the loop over permissions_list from entry i on; a KeyError
\* ends it.
RECURSIVE ClassifyFrom(_, _, _, _)
ClassifyFrom(perms, i, acc, domain) ==
    IF i > Len(perms) \/ acc.err # "none" THEN acc
    ELSE ClassifyFrom(perms, i + 1, ClassifyEntry(perms[i], acc, domain), domain)

\* The classification with the parent-collection identifier left out.
ClassifyPermissionsNoDrive(perms, permission_info, domain) ==
    LET acc == ClassifyFrom(perms, 1, ClassifyStart, domain)
    IN  [err |-> acc.err,
         ext_access |-> IF acc.err = "none"
                        THEN ExternalAccess(acc.user_emails, acc.group_emails, acc.public)
                        ELSE PrivateAccess]

\* Lines 106-145: classification of a non-empty entry list, with the
\* parent-collection identifier joined to the groups.
ClassifyPermissions(perms, permission_info, domain) ==
    LET acc == ClassifyFrom(perms, 1, ClassifyStart, domain)
        drive_id == permission_info.drive_id
        group_ids == acc.group_emails \cup (IF drive_id # None THEN {drive_id} ELSE {})
    IN  [err |-> acc.err,
         ext_access |-> IF acc.err = "none"
                        THEN ExternalAccess(acc.user_emails, group_ids, acc.public)
                        ELSE PrivateAccess]

\* The resolver asking for the identifiers even when entries are embedded.
GetPermissionsFromSlimDocIdsFirst(c, slim_doc, domain, answer) ==
    LET permission_info == slim_doc.perm_sync_data
        embedded == permission_info.permissions
        permission_ids == permission_info.permission_ids
        got == IF permission_ids # <<>>
               THEN FetchPermissionsForPermissionIds(c, permission_ids, permission_info, answer)
               ELSE [err |-> "none", permissions |-> embedded, cache |-> c, calls |-> 0]
    IN  IF got.err # "none"
        THEN [err |-> got.err, ext_access |-> PrivateAccess, cache |-> got.cache,
              fetch_calls |-> got.calls, permissions_list |-> <<>>]
        ELSE IF got.permissions = <<>>
        THEN [err |-> "none", ext_access |-> PrivateAccess, cache |-> got.cache,
              fetch_calls |-> got.calls, permissions_list |-> <<>>]
        ELSE LET classified == ClassifyPermissions(got.permissions, permission_info, domain)
             IN  [err |-> classified.err, ext_access |-> classified.ext_access,
                  cache |-> got.cache, fetch_calls |-> got.calls,
                  permissions_list |-> got.permissions]

\* The resolver without the early return of lines 98-104.
GetPermissionsFromSlimDocNoFallback(c, slim_doc, domain, answer) ==
    LET permission_info == slim_doc.perm_sync_data
        embedded == permission_info.permissions
        permission_ids == permission_info.permission_ids
        got == IF embedded = <<>> /\ permission_ids # <<>>
               THEN FetchPermissionsForPermissionIds(c, permission_ids, permission_info, answer)
               ELSE [err |-> "none", permissions |-> embedded, cache |-> c, calls |-> 0]
    IN  IF got.err # "none"
        THEN [err |-> got.err, ext_access |-> PrivateAccess, cache |-> got.cache,
              fetch_calls |-> got.calls, permissions_list |-> <<>>]
        ELSE LET classified == ClassifyPermissions(got.permissions, permission_info, domain)
             IN  [err |-> classified.err, ext_access |-> classified.ext_access,
                  cache |-> got.cache, fetch_calls |-> got.calls,
                  permissions_list |-> got.permissions]

\* The whole resolver: what it returns or raises, the cache it leaves, the
\* fetches it made and the entry list it settled on (line 97).
GetPermissionsFromSlimDoc(c, slim_doc, domain, answer) ==
    LET permission_info == slim_doc.perm_sync_data
        embedded == permission_info.permissions
        permission_ids == permission_info.permission_ids
        got == IF embedded = <<>> /\ permission_ids # <<>>
               THEN FetchPermissionsForPermissionIds(c, permission_ids, permission_info, answer)
               ELSE [err |-> "none", permissions |-> embedded, cache |-> c, calls |-> 0]
    IN  IF got.err # "none"
        THEN [err |-> got.err, ext_access |-> PrivateAccess, cache |-> got.cache,
              fetch_calls |-> got.calls, permissions_list |-> <<>>]
        ELSE IF got.permissions = <<>>
        THEN [err |-> "none", ext_access |-> PrivateAccess, cache |-> got.cache,
              fetch_calls |-> got.calls, permissions_list |-> <<>>]
        ELSE LET classified == ClassifyPermissions(got.permissions, permission_info, domain)
             IN  [err |-> classified.err, ext_access |-> classified.ext_access,
                  cache |-> got.cache, fetch_calls |-> got.calls,
                  permissions_list |-> got.permissions]

----------------------------------------------------------------------------
(* Inputs *)

\* Entries the permission listing can deliver (fields id, emailAddress,
\* type, domain of line 71), one of them without an id.
FetchedUser1 == Perm("p1", "user", "u@x.com", None)

FetchedUser1Changed == Perm("p1", "user", "v@x.com", None)

FetchedGroup2 == Perm("p2", "group", "g@x.com", None)

FetchedNoId == Perm(None, "anyone", None, None)

FetchedEntries == {FetchedUser1, FetchedUser1Changed, FetchedGroup2, FetchedNoId}

\* Documents of the stream of a run.
DocAnyone == SlimDoc("d1", <<Perm(None, "anyone", None, None)>>, <<>>, None, None)

DocById == SlimDoc("d2", <<>>, <<"p1">>, "d2", None)

DocByIds == SlimDoc("d3", <<>>, <<"p1", "p2">>, "d3", "drive1")

DocNoDocId == SlimDoc("d4", <<>>, <<"p1">>, None, "drive1")

StreamDocs == {DocAnyone, DocById, DocByIds, DocNoDocId}

\* Answers of the permission listing.
\* Answers of the permission listing: a permission id occurs once in the
\* permissions of a file.
DistinctIds(entries) ==
    \A i, j \in 1..Len(entries) :
        (i # j /\ entries[i].id # None) => entries[i].id # entries[j].id

FetchAnswers ==
    {FetchAnswer(e, fails) :
        e \in {x \in SeqsUpTo(FetchedEntries, MaxPerms) : DistinctIds(x)},
        fails \in BOOLEAN}

----------------------------------------------------------------------------
(* gdrive_doc_sync, lines 148-180 *)

slim_doc == slim_doc_batch[idx]

Terminal == pc \in {"done", "raised"}

RunStart(c, r) ==
    /\ pc = "streaming"
    /\ error = "none"
    /\ cache = c
    /\ company_domain = "corp.com"
    /\ hasCallback \in BOOLEAN
    /\ stop = FALSE
    /\ run = r
    /\ slim_doc_batch = <<>>
    /\ idx = 1
    /\ pulled = <<>>
    /\ emitted = <<>>
    /\ progressUnits = 0
    /\ resolved = 0
    /\ ext_access = PrivateAccess
    /\ permissions_list = <<>>
    /\ fetch_calls = 0
    /\ fetched = NotFoundAnswer
    /\ cache0 = c

\* The module is loaded (line 19) and the first run is created.
Init == RunStart(EmptyCache, 1)

\* Line 165: the next batch arrives from slim_doc_generator.
NextBatch ==
    /\ pc = "streaming"
    /\ \E b \in SeqsUpTo(StreamDocs, MaxDocs - Len(pulled)) :
          /\ slim_doc_batch' = b
          /\ pulled' = pulled \o b
          /\ pc' = IF b = <<>> THEN "streaming" ELSE "check_cancel"
    /\ idx' = 1
    /\ UNCHANGED <<error, cache, company_domain, hasCallback, stop, run, emitted,
                   progressUnits, resolved, ext_access, permissions_list,
                   fetch_calls, fetched, cache0>>

\* Line 165: slim_doc_generator is exhausted, the generator returns.
StreamExhausted ==
    /\ pc = "streaming"
    /\ pc' = "done"
    /\ UNCHANGED <<error, cache, company_domain, hasCallback, stop, run,
                   slim_doc_batch, idx, pulled, emitted, progressUnits, resolved,
                   ext_access, permissions_list, fetch_calls, fetched, cache0>>

\* A failure of the listing taken for the end of the stream.
ListingFailsEndsStream ==
    /\ pc = "streaming"
    /\ pc' = "done"
    /\ error' = "ListingError"
    /\ UNCHANGED <<cache, company_domain, hasCallback, stop, run,
                   slim_doc_batch, idx, pulled, emitted, progressUnits, resolved,
                   ext_access, permissions_list, fetch_calls, fetched, cache0>>

\* Line 165: retrieve_all_slim_documents raises while the next batch is pulled.
ListingFails ==
    /\ pc = "streaming"
    /\ pc' = "raised"
    /\ error' = "ListingError"
    /\ UNCHANGED <<cache, company_domain, hasCallback, stop, run,
                   slim_doc_batch, idx, pulled, emitted, progressUnits, resolved,
                   ext_access, permissions_list, fetch_calls, fetched, cache0>>

\* The stop check leaving the inner loop instead of raising.
CheckCancelBreaks ==
    /\ pc = "check_cancel"
    /\ pc' = (IF hasCallback /\ stop THEN "streaming"
              ELSE IF hasCallback THEN "progress" ELSE "resolve")
    /\ UNCHANGED <<error, cache, company_domain, hasCallback, stop, run,
                   slim_doc_batch, idx, pulled, emitted, progressUnits, resolved,
                   ext_access, permissions_list, fetch_calls, fetched, cache0>>

\* Lines 167-169: the stop check before a document.
CheckCancel ==
    /\ pc = "check_cancel"
    /\ IF hasCallback /\ stop
       THEN pc' = "raised" /\ error' = "RuntimeError"
       ELSE pc' = (IF hasCallback THEN "progress" ELSE "resolve") /\ error' = error
    /\ UNCHANGED <<cache, company_domain, hasCallback, stop, run,
                   slim_doc_batch, idx, pulled, emitted, progressUnits, resolved,
                   ext_access, permissions_list, fetch_calls, fetched, cache0>>

\* Progress reported by the size of the batch instead of one unit.
ProgressByBatch ==
    /\ pc = "progress"
    /\ progressUnits' = progressUnits + Len(slim_doc_batch)
    /\ pc' = "resolve"
    /\ UNCHANGED <<error, cache, company_domain, hasCallback, stop, run,
                   slim_doc_batch, idx, pulled, emitted, resolved,
                   ext_access, permissions_list, fetch_calls, fetched, cache0>>

\* Line 171: callback.progress("gdrive_doc_sync", 1).
Progress ==
    /\ pc = "progress"
    /\ progressUnits' = progressUnits + 1
    /\ pc' = "resolve"
    /\ UNCHANGED <<error, cache, company_domain, hasCallback, stop, run,
                   slim_doc_batch, idx, pulled, emitted, resolved,
                   ext_access, permissions_list, fetch_calls, fetched, cache0>>

\* Whether the resolver, called for document d with cache c, reaches the
\* permission listing (line 67).
NeedsFetch(c, d, domain) ==
    GetPermissionsFromSlimDoc(c, d, domain, NotFoundAnswer).fetch_calls > 0

\* The resolver returns or raises, the permission listing having answered
\* `answer` if it was asked.
ResolverEnds(answer) ==
    LET r == GetPermissionsFromSlimDoc(cache, slim_doc, company_domain, answer)
    IN  /\ cache' = r.cache
        /\ fetch_calls' = r.fetch_calls
        /\ permissions_list' = r.permissions_list
        /\ ext_access' = r.ext_access
        /\ error' = r.err
        /\ pc' = IF r.err = "none" THEN "yield" ELSE "raised"

\* Lines 173-176: the resolver is called for slim_doc. It runs to its end
\* (lines 88-145) unless it has to ask the permission listing (lines 61-74).
Resolve ==
    /\ pc = "resolve"
    /\ resolved' = resolved + 1
    /\ cache0' = cache
    /\ fetched' = NotFoundAnswer
    /\ IF NeedsFetch(cache, slim_doc, company_domain)
       THEN /\ pc' = "fetching"
            /\ fetch_calls' = 1
            /\ permissions_list' = <<>>
            /\ UNCHANGED <<cache, ext_access, error>>
       ELSE ResolverEnds(NotFoundAnswer)
    /\ UNCHANGED <<company_domain, hasCallback, stop, run, slim_doc_batch, idx,
                   pulled, emitted, progressUnits>>

\* The stop signal looked at again when the permission listing answers.
FetchReturnsChecksStop ==
    /\ pc = "fetching"
    /\ IF hasCallback /\ stop
       THEN /\ pc' = "raised"
            /\ error' = "RuntimeError"
            /\ UNCHANGED <<cache, fetch_calls, permissions_list, ext_access, fetched>>
       ELSE \E answer \in FetchAnswers :
               /\ fetched' = answer
               /\ ResolverEnds(answer)
    /\ UNCHANGED <<company_domain, hasCallback, stop, run, slim_doc_batch, idx,
                   pulled, emitted, progressUnits, resolved, cache0>>

\* Lines 67-81, then 98-145: the permission listing answers, the entries are
\* stored in the cache and the resolver runs to its end.
FetchReturns ==
    /\ pc = "fetching"
    /\ \E answer \in FetchAnswers :
          /\ fetched' = answer
          /\ ResolverEnds(answer)
    /\ UNCHANGED <<company_domain, hasCallback, stop, run, slim_doc_batch, idx,
                   pulled, emitted, progressUnits, resolved, cache0>>

\* A record without permissions dropped instead of yielded.
EmitSkipsPrivate ==
    /\ pc = "yield"
    /\ emitted' = IF ext_access = PrivateAccess THEN emitted
                  ELSE Append(emitted, DocExternalAccess(ext_access, slim_doc.id))
    /\ ext_access' = PrivateAccess
    /\ permissions_list' = <<>>
    /\ fetch_calls' = 0
    /\ fetched' = NotFoundAnswer
    /\ cache0' = cache
    /\ IF idx < Len(slim_doc_batch)
       THEN idx' = idx + 1 /\ pc' = "check_cancel"
       ELSE idx' = idx /\ pc' = "streaming"
    /\ UNCHANGED <<error, cache, company_domain, hasCallback, stop, run,
                   slim_doc_batch, pulled, progressUnits, resolved>>

\* Lines 177-180: the record is yielded; the loops go on when the caller
\* asks for the next one. The resolver's frame is gone by then: what is kept
\* of the latest resolution is cleared.
Emit ==
    /\ pc = "yield"
    /\ emitted' = Append(emitted, DocExternalAccess(ext_access, slim_doc.id))
    /\ ext_access' = PrivateAccess
    /\ permissions_list' = <<>>
    /\ fetch_calls' = 0
    /\ fetched' = NotFoundAnswer
    /\ cache0' = cache
    /\ IF idx < Len(slim_doc_batch)
       THEN idx' = idx + 1 /\ pc' = "check_cancel"
       ELSE idx' = idx /\ pc' = "streaming"
    /\ UNCHANGED <<error, cache, company_domain, hasCallback, stop, run,
                   slim_doc_batch, pulled, progressUnits, resolved>>

\* The stop signal is raised from outside the run.
SignalStop ==
    /\ ~Terminal
    /\ hasCallback
    /\ ~stop
    /\ stop' = TRUE
    /\ UNCHANGED <<pc, error, cache, company_domain, hasCallback, run,
                   slim_doc_batch, idx, pulled, emitted, progressUnits, resolved,
                   ext_access, permissions_list, fetch_calls, fetched, cache0>>

\* A later run that starts from an emptied cache.
NextRunEvicts ==
    /\ Terminal
    /\ run < MaxRuns
    /\ pc' = "streaming"
    /\ error' = "none"
    /\ hasCallback' \in BOOLEAN
    /\ stop' = FALSE
    /\ run' = run + 1
    /\ slim_doc_batch' = <<>>
    /\ idx' = 1
    /\ pulled' = <<>>
    /\ emitted' = <<>>
    /\ progressUnits' = 0
    /\ resolved' = 0
    /\ ext_access' = PrivateAccess
    /\ permissions_list' = <<>>
    /\ fetch_calls' = 0
    /\ fetched' = NotFoundAnswer
    /\ cache' = EmptyCache
    /\ cache0' = EmptyCache
    /\ UNCHANGED company_domain

\* A later run of gdrive_doc_sync in the same process: the cache stays.
NextRun ==
    /\ Terminal
    /\ run < MaxRuns
    /\ pc' = "streaming"
    /\ error' = "none"
    /\ hasCallback' \in BOOLEAN
    /\ stop' = FALSE
    /\ run' = run + 1
    /\ slim_doc_batch' = <<>>
    /\ idx' = 1
    /\ pulled' = <<>>
    /\ emitted' = <<>>
    /\ progressUnits' = 0
    /\ resolved' = 0
    /\ ext_access' = PrivateAccess
    /\ permissions_list' = <<>>
    /\ fetch_calls' = 0
    /\ fetched' = NotFoundAnswer
    /\ cache0' = cache
    /\ UNCHANGED <<cache, company_domain>>

Next ==
    \/ NextBatch
    \/ StreamExhausted
    \/ ListingFails
    \/ CheckCancel
    \/ Progress
    \/ Resolve
    \/ FetchReturns
    \/ Emit
    \/ SignalStop
    \/ NextRun

Spec == Init /\ [][Next]_vars

----------------------------------------------------------------------------
(* The resolver on its own: one call of _get_permissions_from_slim_doc on a
   document, a cache and a configured domain drawn from the sets below. *)

EmbeddedEntries ==
    {Perm("p1", "user", "u@x.com", None),
     Perm("p2", "group", "g@x.com", None),
     Perm("p3", "domain", None, "corp.com"),
     Perm("p3", "domain", None, "Corp.com"),
     Perm("p4", "anyone", None, None),
     EmptyPerm,
     Perm("p1", None, None, None),
     Perm("p1", "user", None, None)}

PermissionIds == {"p1", "p2"}

\* Documents with embedded entries, and documents with identifiers only.
ResolverDocs ==
    {SlimDoc("d1", e, ids, "d1", drive_id) :
        e \in SeqsUpTo(EmbeddedEntries, MaxPerms) \ {<<>>},
        ids \in {<<>>, <<"p1">>},
        drive_id \in {"drive1", None}}
    \cup
    {SlimDoc("d1", <<>>, ids, doc_id, drive_id) :
        ids \in SeqsUpTo(PermissionIds, MaxPerms),
        doc_id \in {"d1", None},
        drive_id \in {"drive1", None}}

\* Caches earlier fetches can have left: every key maps to an entry that
\* carries the key as its id (line 79).
ResolverCaches ==
    {c \in UNION {[ids -> FetchedEntries] : ids \in SUBSET PermissionIds} :
        \A pid \in DOMAIN c : c[pid].id = pid}

\* With embedded entries the cache is either empty or holds every identifier.
InitResolve ==
    \E d \in ResolverDocs, c \in ResolverCaches :
        /\ d.perm_sync_data.permissions # <<>> => DOMAIN c \in {{}, PermissionIds}
        /\ pc = "resolve"
        /\ error = "none"
        /\ cache = c
        /\ company_domain \in {"corp.com", None}
        /\ hasCallback = FALSE
        /\ stop = FALSE
        /\ run = 1
        /\ slim_doc_batch = <<d>>
        /\ idx = 1
        /\ pulled = <<d>>
        /\ emitted = <<>>
        /\ progressUnits = 0
        /\ resolved = 0
        /\ ext_access = PrivateAccess
        /\ permissions_list = <<>>
        /\ fetch_calls = 0
        /\ fetched = NotFoundAnswer
        /\ cache0 = c

NextResolve ==
    \/ Resolve
    \/ FetchReturns

SpecResolve == InitResolve /\ [][NextResolve]_vars

----------------------------------------------------------------------------
(* Properties *)

perm_sync_data == slim_doc.perm_sync_data

ResolverEnded == pc \in {"yield", "raised"} /\ error # "RuntimeError" /\ error # "ListingError"

\* What a list of entries grants, stated on the list as a whole.
UsersOf(perms) ==
    {perms[i].emailAddress : i \in {j \in 1..Len(perms) : perms[j].type = "user"}}

GroupsOf(perms) ==
    {perms[i].emailAddress : i \in {j \in 1..Len(perms) : perms[j].type = "group"}}

PublicOf(perms, domain) ==
    \E i \in 1..Len(perms) :
        \/ perms[i].type = "anyone"
        \/ perms[i].type = "domain" /\ domain # None /\ perms[i].domain = domain

\* C1: a run that ends by returning (no stop observed, nothing raised) has
\* consumed every document it pulled and has yielded exactly one record per
\* document, in stream order, each carrying the id of its document.
C1_DoneEmittedAll ==
    pc = "done" =>
        /\ error = "none"
        /\ Len(emitted) = Len(pulled)
        /\ \A i \in 1..Len(pulled) : emitted[i].doc_id = pulled[i].id

C1_Witness ==
    /\ pc = "done"
    /\ Len(emitted) >= 2
    /\ emitted[1].doc_id # emitted[2].doc_id

\* C2: when should_stop() answers true at the check before a document, the
\* run ends with the RuntimeError of line 169; that step leaves the cache, the
\* yielded records, the resolver and the progress count alone; nothing
\* changes afterwards within the run; and the records yielded are those of the
\* documents before it, the resolver having run for no other document.
C2_StopEndsRun ==
    /\ [][(pc = "check_cancel" /\ hasCallback /\ stop) =>
            /\ pc' = "raised"
            /\ error' = "RuntimeError"
            /\ UNCHANGED <<cache, emitted, resolved, progressUnits, fetch_calls>>]_vars
    /\ [][(pc = "raised" /\ run' = run) => UNCHANGED <<cache, emitted, resolved>>]_vars
    /\ []((pc = "raised" /\ error = "RuntimeError") =>
            /\ Len(emitted) = Len(pulled) - Len(slim_doc_batch) + idx - 1
            /\ resolved = Len(emitted))

C2_Witness ==
    /\ pc = "raised"
    /\ error = "RuntimeError"
    /\ Len(emitted) >= 1
    /\ cache # EmptyCache
    /\ Len(pulled) > Len(emitted)

\* C3 as stated: the progress units recorded never exceed the records yielded.
C3_ProgressAfterEmit == progressUnits <= Len(emitted)

\* C3 amended: with a callback, the unit of progress of a document is
\* recorded after the stop check and before the document is resolved, so the
\* units recorded are the records yielded or one more; without a callback
\* none is recorded.
C3_ProgressBeforeResolve ==
    IF hasCallback
    THEN /\ progressUnits \in {Len(emitted), Len(emitted) + 1}
         /\ pc = "resolve" => progressUnits = resolved + 1
         /\ pc \in {"fetching", "yield"} =>
               progressUnits = resolved /\ progressUnits = Len(emitted) + 1
    ELSE progressUnits = 0

C3_Witness ==
    /\ hasCallback
    /\ pc = "resolve"
    /\ Len(emitted) >= 1
    /\ progressUnits = Len(emitted) + 1

\* C4 as stated: a parent-collection identifier on the descriptor is in the
\* group set of the document's record in every case.
C4_DriveIdAlways ==
    (pc = "yield" /\ perm_sync_data.drive_id # None) =>
        perm_sync_data.drive_id \in ext_access.external_user_group_ids

\* C4 amended: a parent-collection identifier on the descriptor is in the
\* group set of the record whenever the entry list used for the document is
\* not empty, whatever its entries are; when no entries are obtained the
\* record is the private one, which holds no group at all.
C4_DriveIdWhenEntries ==
    (pc = "yield" /\ perm_sync_data.drive_id # None) =>
        IF permissions_list # <<>>
        THEN perm_sync_data.drive_id \in ext_access.external_user_group_ids
        ELSE ext_access.external_user_group_ids = {}

C4_Witness ==
    /\ pc = "yield"
    /\ perm_sync_data.drive_id # None
    /\ permissions_list = <<EmptyPerm>>
    /\ ext_access.external_user_group_ids = {perm_sync_data.drive_id}

\* The entries of a fetch answer that the loop of lines 77-79 reaches: all of
\* them, or those before the first entry without an id.
RECURSIVE Delivered(_)
Delivered(entries) ==
    IF entries = <<>> \/ Head(entries).id = None THEN <<>>
    ELSE <<Head(entries)>> \o Delivered(Tail(entries))

SomeIdUncached ==
    /\ perm_sync_data.permissions = <<>>
    /\ \E i \in 1..Len(perm_sync_data.permission_ids) :
          perm_sync_data.permission_ids[i] \notin DOMAIN cache0

\* C5 as stated: with no embedded entries and an identifier absent from the
\* cache, the resolution makes exactly one fetch and every entry the fetch
\* returned is then the cached entry of its identifier.
C5_OneFetchCachesAll ==
    (ResolverEnded /\ SomeIdUncached) =>
        /\ fetch_calls = 1
        /\ \A i \in 1..Len(fetched.entries) :
              /\ fetched.entries[i].id \in DOMAIN cache
              /\ cache[fetched.entries[i].id] = fetched.entries[i]

\* C5 amended: with no embedded entries, a document id and an identifier
\* absent from the cache, the resolution makes exactly one fetch, and every
\* entry the fetch delivered before the resolver ended (all of them, or those
\* before the first entry without an id, where the resolver raises) is then
\* the cached entry of its identifier, replacing what was cached for it;
\* identifiers the fetch did not deliver keep their cached entries. Without
\* a document id no fetch is made and the cache stays as it was.
C5_OneFetchCachesDelivered ==
    (ResolverEnded /\ SomeIdUncached) =>
        IF perm_sync_data.doc_id # None
        THEN /\ fetch_calls = 1
             /\ \A i \in 1..Len(Delivered(fetched.entries)) :
                   /\ fetched.entries[i].id \in DOMAIN cache
                   /\ cache[fetched.entries[i].id] = fetched.entries[i]
             /\ \A pid \in DOMAIN cache :
                   \/ \E i \in 1..Len(Delivered(fetched.entries)) : fetched.entries[i].id = pid
                   \/ pid \in DOMAIN cache0 /\ cache[pid] = cache0[pid]
        ELSE fetch_calls = 0 /\ cache = cache0

C5_Witness ==
    /\ pc = "yield"
    /\ SomeIdUncached
    /\ fetch_calls = 1
    /\ "p1" \in DOMAIN cache0
    /\ cache0["p1"] = FetchedUser1
    /\ cache["p1"] = FetchedUser1Changed
    /\ "p2" \in DOMAIN cache

AllIdsCached ==
    /\ perm_sync_data.permissions = <<>>
    /\ perm_sync_data.permission_ids # <<>>
    /\ \A i \in 1..Len(perm_sync_data.permission_ids) :
          perm_sync_data.permission_ids[i] \in DOMAIN cache0

CachedEntries ==
    [i \in 1..Len(perm_sync_data.permission_ids) |-> cache0[perm_sync_data.permission_ids[i]]]

RecordOfCached ==
    ExternalAccess(UsersOf(CachedEntries),
                   GroupsOf(CachedEntries)
                       \cup (IF perm_sync_data.drive_id # None
                             THEN {perm_sync_data.drive_id} ELSE {}),
                   PublicOf(CachedEntries, company_domain))

\* C6 as stated: when every referenced identifier is cached, the resolution
\* makes no fetch, leaves the cache as it was and returns the record of the
\* cached entries of those identifiers.
C6_AllCachedNoFetch ==
    (ResolverEnded /\ AllIdsCached) =>
        /\ pc = "yield"
        /\ fetch_calls = 0
        /\ cache = cache0
        /\ ext_access = RecordOfCached

\* C6 amended: when every referenced identifier is cached, the resolution
\* makes no fetch and leaves the cache as it was; if the descriptor carries a
\* document id it returns the record of the cached entries of those
\* identifiers, and if it carries none it returns the private record.
C6_AllCachedNoFetchWithDocId ==
    /\ AllIdsCached => pc # "fetching"
    /\ (ResolverEnded /\ AllIdsCached) =>
          /\ pc = "yield"
          /\ fetch_calls = 0
          /\ cache = cache0
          /\ ext_access = IF perm_sync_data.doc_id # None
                          THEN RecordOfCached
                          ELSE PrivateAccess

C6_Witness ==
    /\ pc = "yield"
    /\ AllIdsCached
    /\ perm_sync_data.doc_id # None
    /\ perm_sync_data.permission_ids = <<"p1", "p2">>
    /\ cache0["p1"] = FetchedUser1Changed
    /\ ext_access = ExternalAccess({"v@x.com"}, {"g@x.com"}, FALSE)

\* C7: a descriptor with embedded entries is resolved without a fetch and
\* without the cache: the permission listing is never asked, the cache stays
\* as it was, and the entry list used is the embedded one, whatever
\* identifiers the descriptor carries and whatever the cache holds.
C7_EmbeddedNoFetch ==
    perm_sync_data.permissions # <<>> =>
        /\ pc # "fetching"
        /\ ResolverEnded =>
              /\ fetch_calls = 0
              /\ cache = cache0
              /\ error = "none" => permissions_list = perm_sync_data.permissions

C7_Witness ==
    /\ pc = "yield"
    /\ perm_sync_data.permissions # <<>>
    /\ perm_sync_data.permission_ids = <<"p1">>
    /\ cache0 = EmptyCache
    /\ fetch_calls = 0

\* The resolution of slim_doc obtained no entry: nothing embedded, and no
\* identifier, or no document id, or a fetch answered with no entry.
NoEntriesObtained ==
    /\ perm_sync_data.permissions = <<>>
    /\ \/ perm_sync_data.permission_ids = <<>>
       \/ perm_sync_data.doc_id = None
       \/ SomeIdUncached /\ fetch_calls = 1 /\ fetched = NotFoundAnswer

\* C8: a resolution that obtains no entry returns the private record (no
\* user, no group, not public) and raises nothing, and the run goes on: the
\* private record is yielded for the document and the loop moves to the next
\* document or batch.
C8_NoEntriesPrivate ==
    /\ []((ResolverEnded /\ NoEntriesObtained) =>
            /\ pc = "yield"
            /\ error = "none"
            /\ ext_access = PrivateAccess)
    /\ [][(pc = "yield" /\ NoEntriesObtained /\ pc' # pc) =>
            /\ emitted' = Append(emitted, DocExternalAccess(PrivateAccess, slim_doc.id))
            /\ pc' \in {"check_cancel", "streaming"}
            /\ error' = "none"]_vars

C8_Witness ==
    /\ emitted = <<DocExternalAccess(PrivateAccess, "d2")>>
    /\ pulled = <<DocById, DocNoDocId>>
    /\ pc = "yield"
    /\ ext_access = PrivateAccess

\* C9: the public flag of a record is true exactly when the entry list used
\* holds an entry of type anyone, or an entry of type domain whose domain is
\* the configured domain, a domain being configured.
C9_PublicIff ==
    pc = "yield" =>
        (ext_access.is_public <=> PublicOf(permissions_list, company_domain))

C9_Witness ==
    /\ pc = "yield"
    /\ company_domain = "corp.com"
    /\ permissions_list = <<Perm("p3", "domain", None, "Corp.com"),
                            Perm("p3", "domain", None, "corp.com")>>
    /\ ext_access.is_public

\* C10: the resolver raises no error, whatever the descriptor and the
\* entries are.
C10_ResolverNeverRaises == error # "KeyError"

\* C11 as stated: an error raised on the permission-fetch path of a document
\* never leaves the resolver, so no run ends with it.
C11_FetchErrorAbsorbed == error # "FetchError"

\* C11 amended: only a fetch answered with no entry (not found, forbidden)
\* is absorbed: the document gets the private record and the run goes on. A
\* listing that raises, or delivers an entry without an id, makes the resolver
\* raise out of the run: the error reaches the caller, no record is yielded
\* for that document or any later one, and the records yielded before stay.
C11_FetchErrorEndsRun ==
    /\ [][(pc = "fetching" /\ pc' # pc) =>
            IF fetched' = NotFoundAnswer
            THEN pc' = "yield" /\ error' = "none" /\ ext_access' = PrivateAccess
            ELSE IF Len(Delivered(fetched'.entries)) < Len(fetched'.entries)
            THEN pc' = "raised" /\ error' = "KeyError" /\ emitted' = emitted
            ELSE fetched'.fails =>
                    pc' = "raised" /\ error' = "FetchError" /\ emitted' = emitted]_vars
    /\ [][(pc = "raised" /\ error \in {"FetchError", "KeyError"} /\ run' = run) =>
            UNCHANGED <<pc, error, emitted, resolved, pulled>>]_vars
    /\ []((pc = "raised" /\ error \in {"FetchError", "KeyError"}) =>
            /\ resolved = Len(emitted) + 1
            /\ Len(emitted) = Len(pulled) - Len(slim_doc_batch) + idx - 1)

C11_Witness ==
    /\ pc = "raised"
    /\ error = "FetchError"
    /\ Len(emitted) >= 1
    /\ Len(pulled) > Len(emitted)

\* C12: a failure of the document listing while the next batch is pulled
\* ends the run with that error, which is not the error of a stop: the step
\* yields nothing and leaves the cache alone, nothing is pulled or yielded
\* afterwards in the run (no retry), and the records yielded are exactly
\* those of the documents of the batches pulled before, in order.
C12_ListingFailureFatal ==
    /\ [][(error' = "ListingError" /\ error # "ListingError") =>
            /\ pc = "streaming"
            /\ pc' = "raised"
            /\ UNCHANGED <<cache, emitted, pulled, resolved>>]_vars
    /\ [][(pc = "raised" /\ error = "ListingError" /\ run' = run) =>
            UNCHANGED <<pc, error, emitted, pulled, resolved>>]_vars
    /\ []((pc # "raised") => error = "none")
    /\ []((pc = "raised" /\ error = "ListingError") =>
            /\ Len(emitted) = Len(pulled)
            /\ \A i \in 1..Len(pulled) : emitted[i].doc_id = pulled[i].id)

C12_Witness ==
    /\ pc = "raised"
    /\ error = "ListingError"
    /\ Len(emitted) >= 1
    /\ Len(pulled) < MaxDocs

\* The record of a list of well-formed entries for slim_doc: the private
\* record for the empty list, else the users, the groups with the
\* parent-collection identifier, and the public flag of the list.
RecordOfEntries(perms) ==
    IF perms = <<>> THEN PrivateAccess
    ELSE ExternalAccess(UsersOf(perms),
                        GroupsOf(perms)
                            \cup (IF perm_sync_data.drive_id # None
                                  THEN {perm_sync_data.drive_id} ELSE {}),
                        PublicOf(perms, company_domain))

\* C13: when a referenced identifier is not cached, the entries used for the
\* document are exactly the entries the fetch returned (none when, for want
\* of a document id, no fetch is made), and the record is the record of those
\* entries: a cached entry of a referenced identifier that the fetch did not
\* return adds nothing.
C13_FetchAllOrNothing ==
    (pc = "yield" /\ SomeIdUncached) =>
        /\ permissions_list = fetched.entries
        /\ ext_access = RecordOfEntries(fetched.entries)
        /\ perm_sync_data.doc_id # None => fetch_calls = 1

C13_Witness ==
    /\ pc = "yield"
    /\ perm_sync_data.permission_ids = <<"p1", "p2">>
    /\ DOMAIN cache0 = {"p1"}
    /\ cache0["p1"] = FetchedUser1
    /\ fetched.entries = <<FetchedGroup2>>
    /\ ext_access.external_user_emails = {}
    /\ "g@x.com" \in ext_access.external_user_group_ids

\* C14 as stated: an identifier that is cached keeps its entry: no
\* resolution changes the entry of an identifier it found cached.
C14_CachedEntryImmutable ==
    ResolverEnded =>
        \A pid \in DOMAIN cache0 : pid \in DOMAIN cache /\ cache[pid] = cache0[pid]

\* C14 amended: an identifier that is cached stays cached, and its entry
\* changes only when a fetch (made for a document with an identifier that is
\* not cached) delivers an entry carrying that identifier, which replaces it;
\* no other step changes a cached entry.
C14_CachedEntryReplacedByFetch ==
    [][\A pid \in DOMAIN cache :
          /\ pid \in DOMAIN cache'
          /\ cache'[pid] # cache[pid] =>
                /\ pc = "fetching"
                /\ \E i \in 1..Len(Delivered(fetched'.entries)) :
                      fetched'.entries[i].id = pid /\ fetched'.entries[i] = cache'[pid]]_vars

C14_Witness ==
    /\ run = 2
    /\ pc = "yield"
    /\ "p1" \in DOMAIN cache0
    /\ cache0["p1"] = FetchedUser1
    /\ cache["p1"] = FetchedUser1Changed

\* C15: the stop signal is looked at once per document, at the check before
\* it, and nowhere else: a document enters the check from the batch loop
\* only, the run ends with the error of a stop only at that check with the
\* signal true, and there it does; a signal that turns true later (while the
\* document is resolved or its fetch is in flight) changes nothing of that
\* document: its resolution ends as the resolver decides and its record is
\* yielded.
C15_StopPolledAtCheckOnly ==
    /\ [][(error' = "RuntimeError" /\ error # "RuntimeError") =>
            pc = "check_cancel" /\ hasCallback /\ stop]_vars
    /\ [][(pc = "check_cancel" /\ pc' # pc) =>
            IF hasCallback /\ stop THEN pc' = "raised"
            ELSE pc' = (IF hasCallback THEN "progress" ELSE "resolve")]_vars
    /\ [][(pc' = "check_cancel" /\ pc # "check_cancel") =>
            /\ pc \in {"streaming", "yield"}
            /\ resolved' = resolved
            /\ resolved = Len(emitted')]_vars
    /\ [][(pc = "fetching" /\ pc' # pc) =>
            \/ pc' = "yield" /\ error' = "none"
            \/ pc' = "raised" /\ error' \in {"KeyError", "FetchError"}]_vars
    /\ [][(pc = "yield" /\ pc' # pc) =>
            emitted' = Append(emitted, DocExternalAccess(ext_access, slim_doc.id))]_vars

C15_Witness ==
    /\ hasCallback
    /\ stop
    /\ pc = "yield"
    /\ fetch_calls = 1
    /\ idx < Len(slim_doc_batch)

\* The identifiers of the entries of a list.
IdsOf(entries) == {entries[i].id : i \in 1..Len(entries)}

\* C16 as stated: the result of a fetch reaches the cache as one batch: a
\* fetch that ends in an error has written nothing, and a fetch that ends
\* well has written every entry.
C16_FetchAppliedAsBatch ==
    (ResolverEnded /\ fetch_calls = 1) =>
        IF error \in {"FetchError", "KeyError"}
        THEN cache = cache0
        ELSE IdsOf(fetched.entries) \subseteq DOMAIN cache

\* C16 amended: the entries of a fetch reach the cache one by one, as they
\* are delivered: when the resolution ends, the cached identifiers are those
\* cached before and those of the entries delivered before the fetch ended or
\* failed, so after a fetch that fails part-way the cache holds the part
\* delivered, and only after a fetch that ends well does it hold them all.
C16_FetchAppliedEntryByEntry ==
    (ResolverEnded /\ fetch_calls = 1) =>
        /\ DOMAIN cache = DOMAIN cache0 \cup IdsOf(Delivered(fetched.entries))
        /\ error = "none" => Delivered(fetched.entries) = fetched.entries
        /\ error = "FetchError" => fetched.fails
        /\ error = "KeyError" => Delivered(fetched.entries) # fetched.entries

C16_Witness ==
    /\ pc = "raised"
    /\ error = "FetchError"
    /\ fetched.entries = <<FetchedGroup2>>
    /\ "p2" \notin DOMAIN cache0
    /\ "p2" \in DOMAIN cache

\* An entry the loop of lines 112-131 reads without skipping it and without
\* a KeyError: not falsy, with a type, and with an address when the type is
\* user or group.
WellFormed(permission) ==
    /\ ~IsFalsy(permission)
    /\ permission.type # None
    /\ permission.type \in {"user", "group"} => permission.emailAddress # None

\* C17: when the entry list used is not empty and all its entries are well
\* formed, the resolver returns a record whose users are exactly the
\* addresses of the entries of type user and whose groups are exactly the
\* addresses of the entries of type group, with the parent-collection
\* identifier when the descriptor has one; entries of type domain or anyone
\* add to neither set.
C17_UsersAndGroupsExact ==
    (ResolverEnded /\ permissions_list # <<>>
        /\ \A i \in 1..Len(permissions_list) : WellFormed(permissions_list[i])) =>
        /\ pc = "yield"
        /\ error = "none"
        /\ ext_access.external_user_emails = UsersOf(permissions_list)
        /\ ext_access.external_user_group_ids =
              GroupsOf(permissions_list)
                  \cup (IF perm_sync_data.drive_id # None
                        THEN {perm_sync_data.drive_id} ELSE {})

C17_Witness ==
    /\ pc = "yield"
    /\ permissions_list = <<Perm("p2", "group", "g@x.com", None),
                            Perm("p3", "domain", None, "corp.com")>>
    /\ perm_sync_data.drive_id = "drive1"
    /\ ext_access.external_user_emails = {}
    /\ ext_access.external_user_group_ids = {"g@x.com", "drive1"}

\* A list of entries without its falsy entries.
NonFalsy(perms) == SelectSeq(perms, LAMBDA permission : ~IsFalsy(permission))

\* The descriptor doc carrying perms as its embedded entries.
WithPermissions(doc, perms) == [doc EXCEPT !.perm_sync_data.permissions = perms]

\* What the resolver makes of slim_doc once the falsy entries are taken out
\* of its embedded list, the cache being the one the resolution started with.
FromNonFalsy ==
    GetPermissionsFromSlimDoc(cache0,
                              WithPermissions(slim_doc, NonFalsy(perm_sync_data.permissions)),
                              company_domain, NotFoundAnswer)

\* C18 as stated: for every descriptor with embedded entries the resolver
\* ends as it does for the same descriptor with the falsy entries taken out
\* of the list: the same error or none, and the same record.
C18_FalsyRemovable ==
    (ResolverEnded /\ perm_sync_data.permissions # <<>>) =>
        /\ error = FromNonFalsy.err
        /\ error = "none" => ext_access = FromNonFalsy.ext_access

\* C18 amended: a falsy entry is skipped, and when the embedded list holds
\* an entry that is not falsy the resolver ends as it does for the list
\* without its falsy entries. A list whose entries are all falsy is still a
\* non-empty list: no fetch is made for it, and its record has no user, is
\* not public, and holds the parent-collection identifier as its only group
\* when the descriptor has one, where the empty list gives the private
\* record.
C18_FalsySkipped ==
    (ResolverEnded /\ perm_sync_data.permissions # <<>>) =>
        IF NonFalsy(perm_sync_data.permissions) # <<>>
        THEN /\ error = FromNonFalsy.err
             /\ error = "none" => ext_access = FromNonFalsy.ext_access
        ELSE /\ pc = "yield"
             /\ error = "none"
             /\ fetch_calls = 0
             /\ ext_access =
                   ExternalAccess({},
                                  IF perm_sync_data.drive_id # None
                                  THEN {perm_sync_data.drive_id} ELSE {},
                                  FALSE)

C18_Witness ==
    /\ pc = "yield"
    /\ perm_sync_data.permissions = <<EmptyPerm, Perm("p1", "user", "u@x.com", None)>>
    /\ perm_sync_data.drive_id = "drive1"
    /\ ext_access = ExternalAccess({"u@x.com"}, {"drive1"}, FALSE)

\* C19: nothing leaves the cache: over every step of every run in the
\* process the cached identifiers stay cached; only the return of a fetch
\* changes the cache, and a fetch is in flight only for a descriptor without
\* embedded entries, with a document id and with an identifier not cached;
\* so a resolution on the embedded path, on the all-cached path or without a
\* document id ends with the cache it started with, and so does a run
\* stopped at the check.
C19_CacheOnlyGrows ==
    /\ [][DOMAIN cache \subseteq DOMAIN cache']_vars
    /\ [][cache' # cache => (pc = "fetching" /\ pc' \in {"yield", "raised"})]_vars
    /\ [](pc = "fetching" =>
            /\ perm_sync_data.permissions = <<>>
            /\ perm_sync_data.doc_id # None
            /\ SomeIdUncached)
    /\ []((ResolverEnded /\ (\/ perm_sync_data.permissions # <<>>
                              \/ AllIdsCached
                              \/ perm_sync_data.doc_id = None)) =>
            fetch_calls = 0 /\ cache = cache0)
    /\ [][error' = "RuntimeError" => cache' = cache]_vars

C19_Witness ==
    /\ run = 2
    /\ pc = "yield"
    /\ AllIdsCached
    /\ perm_sync_data.doc_id # None
    /\ fetch_calls = 0
    /\ cache # EmptyCache
    /\ cache = cache0

====
